---------------------------- MODULE Spec2Model ----------------------------
(***************************************************************************)
(* State-machine model of main() of llm/run_quantization.py.               *)
(*                                                                         *)
(* main() is one sequential procedure.  The state is the argument groups   *)
(* it reads (and sometimes writes), its local variables (model, tokenizer, *)
(* the three datasets, the trainer), its position pc, the exception that   *)
(* is propagating, and the trace `calls` of the calls it has made into the *)
(* external library.  A library call either returns or raises; what the    *)
(* library returns (the class of the loaded model, whether the tokenizer   *)
(* has a chat template, which files exist) is an input of the step that    *)
(* makes the call.  Flags that a single step reads are inputs of that      *)
(* step; flags read by several steps are part of the initial state.        *)
(***************************************************************************)
EXTENDS Naturals, Sequences, FiniteSets

VARIABLES
    pc,             \* position in main()
    quant_args,     \* QuantArgument: do_ptq, do_qat, do_gptq, load_quant_model,
                    \* shift, smooth, auto_clip
    training_args,  \* TrainingArguments: do_eval, pipeline_parallel_degree, ignore_data_skip
    data_args,      \* DataArgument: zero_padding, eval_with_do_generation, dataset_name_or_path
    model_args,     \* ModelArgument: flash_mask
    model_class,    \* local model_class
    model,          \* local model: its class and the config fields main() touches
    tokenizer,      \* local tokenizer
    exists,         \* results of os.path.exists inside the dataset if/elif chain
    layout,         \* which branch of the dataset if/elif chain was taken
    train_ds,       \* local train_ds
    dev_ds,         \* local dev_ds
    ptq_ds,         \* local ptq_ds
    eval_zero_padding, \* local eval_zero_padding
    trainer,        \* local trainer (the arguments SFTTrainer was built with)
    calls,          \* trace of the library calls made so far, in order (logging,
                    \* the xpu block and the sequence-parallel hook registration,
                    \* which touch nothing main() reads later, are left out)
    exc             \* the exception being propagated, if any

vars == <<pc, quant_args, training_args, data_args, model_args, model_class, model,
          tokenizer, exists, layout, train_ds, dev_ds, ptq_ds, eval_zero_padding,
          trainer, calls, exc>>

argvars == <<quant_args, model_args>>
dsvars == <<exists, layout, train_ds, dev_ds, ptq_ds>>

-----------------------------------------------------------------------------
(* Values *)

NoExc == [type |-> "none", at |-> "none"]

\* flash_mask_support_list
flash_mask_support_list ==
    {"LlamaForCausalLM", "LlamaForCausalLMPipe", "Qwen2ForCausalLM", "Qwen2ForCausalLMPipe"}

\* The classes model_class.from_pretrained / from_config may return: the
\* supported ones, one unsupported causal LM, and a LoRA-wrapped model.
ModelClasses(mc) ==
    IF mc = "AutoModelForCausalLMPipe"
    THEN {"LlamaForCausalLMPipe", "Qwen2ForCausalLMPipe", "GPTForCausalLMPipe", "LoRAModel"}
    ELSE {"LlamaForCausalLM", "Qwen2ForCausalLM", "GPTForCausalLM", "LoRAModel"}

\* quantization_config as built at lines 112-117: none of quant_type, smooth,
\* shift, shift_smooth_all_linears has been assigned by main().
FreshQuantizationConfig == [modified |-> FALSE, shift |-> FALSE, smooth |-> FALSE]

UnboundModel ==
    [class |-> "unbound", use_flash_attention |-> FALSE,
     quantization_config |-> FreshQuantizationConfig]

UnboundTokenizer == [loaded |-> FALSE, chat_template |-> FALSE]

\* A dataset variable: src is "unbound" before assignment, "None" for Python
\* None, else the place it was loaded from.
Ds(src) == [src |-> src, skipped |-> FALSE, mapped |-> FALSE, packed |-> FALSE]
UnboundDs == Ds("unbound")
NoneDs == Ds("None")
IsNone(ds) == ds.src = "None"

UnboundTrainer ==
    [built |-> FALSE, train_dataset |-> UnboundDs, eval_dataset |-> UnboundDs,
     compute_metrics |-> "unbound", padding |-> "unbound",
     return_attention_mask |-> FALSE, do_generation |-> FALSE]

FlatFiles == {"train.json", "dev.json", "quant.json"}
DirNames == {"train", "dev", "quant"}

-----------------------------------------------------------------------------
(* The state after argument parsing and print_config, lines 69-78. *)

Init ==
    /\ pc = "check_strategy"
    /\ quant_args \in [do_ptq : BOOLEAN, do_qat : BOOLEAN, do_gptq : BOOLEAN,
                       load_quant_model : BOOLEAN, auto_clip : BOOLEAN,
                       shift : BOOLEAN, smooth : BOOLEAN]
    \* auto_clip is read inside the do_ptq branch only (line 502), shift and
    \* smooth inside the do_ptq and load_quant_model branches only (lines
    \* 487-500, 553-566): where the branch cannot run their values cannot
    \* matter, and the default FALSE stands for all of them.
    /\ quant_args.auto_clip => quant_args.do_ptq
    /\ (quant_args.shift \/ quant_args.smooth)
          => (quant_args.do_ptq \/ quant_args.load_quant_model)
    /\ training_args \in [do_eval : BOOLEAN, pipeline_parallel_degree : {1, 2},
                          ignore_data_skip : {FALSE}]
    /\ data_args \in [zero_padding : BOOLEAN, eval_with_do_generation : BOOLEAN,
                      dataset_name_or_path : {"None", "path"}]
    /\ model_args \in [flash_mask : BOOLEAN]
    /\ model_class = "unbound"
    /\ model = UnboundModel
    /\ tokenizer = UnboundTokenizer
    /\ exists = {}
    /\ layout = "unbound"
    /\ train_ds = UnboundDs
    /\ dev_ds = UnboundDs
    /\ ptq_ds = UnboundDs
    /\ eval_zero_padding = FALSE
    /\ trainer = UnboundTrainer
    /\ calls = <<>>
    /\ exc = NoExc

-----------------------------------------------------------------------------
(* Control flow *)

\* Fall through to the next statement.
Goto(next) == pc' = next /\ exc' = exc

\* A raise statement of main(), or an exception out of a library call: main()
\* has no handler around it, so the exception leaves main().
Raise(type) == pc' = "raised" /\ exc' = [type |-> type, at |-> pc]

\* The library calls cs are made in order and all return.
Returns(cs, next) == calls' = calls \o cs /\ Goto(next)

\* The library calls cs are made in order and the k-th raises.
Fails(cs) ==
    \E k \in 1..Len(cs) :
        /\ calls' = calls \o SubSeq(cs, 1, k)
        /\ Raise("LibraryError")

Opt(b, c) == IF b THEN <<c>> ELSE <<>>

BoolCount(b) == IF b THEN 1 ELSE 0

-----------------------------------------------------------------------------
(* Lines 80-83 *)

\* Variant: the sum leaves do_gptq out.
CheckStrategy_PtqQatOnly ==
    /\ pc = "check_strategy"
    /\ IF BoolCount(quant_args.do_ptq) + BoolCount(quant_args.do_qat) > 1
       THEN Raise("ValueError")
       ELSE Goto("set_device")
    /\ UNCHANGED <<argvars, training_args, data_args, model_class, model, tokenizer,
                   dsvars, eval_zero_padding, trainer, calls>>

CheckStrategy ==
    /\ pc = "check_strategy"
    /\ IF BoolCount(quant_args.do_ptq) + BoolCount(quant_args.do_qat)
            + BoolCount(quant_args.do_gptq) > 1
       THEN Raise("ValueError")
       ELSE Goto("set_device")
    /\ UNCHANGED <<argvars, training_args, data_args, model_class, model, tokenizer,
                   dsvars, eval_zero_padding, trainer, calls>>

(* Line 86 *)
SetDevice ==
    /\ pc = "set_device"
    /\ \/ Returns(<<"paddle.set_device">>, "xpu_opt")
       \/ Fails(<<"paddle.set_device">>)
    /\ UNCHANGED <<argvars, training_args, data_args, model_class, model, tokenizer,
                   dsvars, eval_zero_padding, trainer>>

(* Lines 92-97: the try block, entered only on xpu with gradient
   accumulation.  Either the condition is false or the block completes (the
   LinearConfig calls touch nothing main() reads later and are not traced),
   or the import or a LinearConfig call raises ImportError, which the except
   clause of line 98 receives, or something else is raised and leaves main(). *)
XpuAccumulateOpt ==
    /\ pc = "xpu_opt"
    /\ \/ /\ Goto("dtype")
          /\ calls' = calls
       \/ /\ pc' = "xpu_except"
          /\ exc' = [type |-> "ImportError", at |-> pc]
          /\ calls' = calls
       \/ /\ Raise("LibraryError")
          /\ calls' = calls
    /\ UNCHANGED <<argvars, training_args, data_args, model_class, model, tokenizer,
                   dsvars, eval_zero_padding, trainer>>

(* Lines 98-100: except ImportError: pass *)
XpuExcept ==
    /\ pc = "xpu_except"
    /\ pc' = "dtype"
    /\ exc' = NoExc
    /\ UNCHANGED <<argvars, training_args, data_args, model_class, model, tokenizer,
                   dsvars, eval_zero_padding, trainer, calls>>

(* Lines 103-111: fp16_opt_level, fp16 and bf16 are read here only. *)
SelectDtype ==
    /\ pc = "dtype"
    /\ \E O2 \in BOOLEAN, fp16 \in BOOLEAN, bf16 \in BOOLEAN :
          IF O2 /\ ~fp16 /\ ~bf16
          THEN Raise("ValueError")
          ELSE Goto("load_config")
    /\ UNCHANGED <<argvars, training_args, data_args, model_class, model, tokenizer,
                   dsvars, eval_zero_padding, trainer, calls>>

(* Lines 112-144 *)
LoadConfig ==
    /\ pc = "load_config"
    /\ \/ Returns(<<"AutoConfig.from_pretrained", "LlmMetaConfig.set_llm_config">>,
                  "model_class")
       \/ Fails(<<"AutoConfig.from_pretrained", "LlmMetaConfig.set_llm_config">>)
    /\ UNCHANGED <<argvars, training_args, data_args, model_class, model, tokenizer,
                   dsvars, eval_zero_padding, trainer>>

(* Lines 146-151 *)
SelectModelClass ==
    /\ pc = "model_class"
    /\ IF training_args.pipeline_parallel_degree > 1
       THEN IF data_args.eval_with_do_generation /\ training_args.do_eval
            THEN Raise("ValueError") /\ model_class' = "AutoModelForCausalLM"
            ELSE Goto("load_model") /\ model_class' = "AutoModelForCausalLMPipe"
       ELSE Goto("load_model") /\ model_class' = "AutoModelForCausalLM"
    /\ UNCHANGED <<argvars, training_args, data_args, model, tokenizer,
                   dsvars, eval_zero_padding, trainer, calls>>

(* Lines 153-161: from_pretrained or from_config, by continue_training and
   autotuner_benchmark; both build the model from model_config. *)
LoadModel ==
    /\ pc = "load_model"
    /\ \/ /\ Returns(<<"load_model">>, "flash_mask")
          /\ \E cls \in ModelClasses(model_class), ufa \in BOOLEAN :
                model' = [UnboundModel EXCEPT !.class = cls, !.use_flash_attention = ufa]
       \/ /\ Fails(<<"load_model">>)
          /\ model' = model
    /\ UNCHANGED <<argvars, training_args, data_args, model_class, tokenizer,
                   dsvars, eval_zero_padding, trainer>>

(* Lines 163-169 *)
\* Variant: the warning is logged but nothing is forced on.
CheckFlashMask_NoForce ==
    /\ pc = "flash_mask"
    /\ data_args' = data_args
    /\ model' = model
    /\ IF model_args.flash_mask /\ model.class \notin flash_mask_support_list
       THEN Raise("NotImplementedError")
       ELSE Goto("register_hooks")
    /\ UNCHANGED <<argvars, training_args, model_class, tokenizer,
                   dsvars, eval_zero_padding, trainer, calls>>

CheckFlashMask ==
    /\ pc = "flash_mask"
    /\ IF model_args.flash_mask
          /\ (~data_args.zero_padding \/ ~model.use_flash_attention)
       THEN /\ data_args' = [data_args EXCEPT !.zero_padding = TRUE]
            /\ model' = [model EXCEPT !.use_flash_attention = TRUE]
       ELSE /\ data_args' = data_args
            /\ model' = model
    /\ IF model_args.flash_mask /\ model.class \notin flash_mask_support_list
       THEN Raise("NotImplementedError")
       ELSE Goto("register_hooks")
    /\ UNCHANGED <<argvars, training_args, model_class, tokenizer,
                   dsvars, eval_zero_padding, trainer, calls>>

(* Lines 171-174: sequence_parallel unset, or the hooks are registered, or
   the registration raises. *)
RegisterHooks ==
    /\ pc = "register_hooks"
    /\ \/ Goto("load_tokenizer")
       \/ Raise("LibraryError")
    /\ UNCHANGED <<argvars, training_args, data_args, model_class, model, tokenizer,
                   dsvars, eval_zero_padding, trainer, calls>>

(* Lines 176-185: init_chat_template decides tokenizer.chat_template. *)
\* Variant: the assignment of line 182 is missing.
LoadTokenizer_NoForce ==
    /\ pc = "load_tokenizer"
    /\ \/ /\ Returns(<<"AutoTokenizer.from_pretrained", "init_chat_template">>,
                     "probe_dataset")
          /\ \E chat \in BOOLEAN :
                tokenizer' = [loaded |-> TRUE, chat_template |-> chat]
       \/ /\ Fails(<<"AutoTokenizer.from_pretrained", "init_chat_template">>)
          /\ tokenizer' = tokenizer
    /\ UNCHANGED <<argvars, training_args, data_args, model_class, model,
                   dsvars, eval_zero_padding, trainer>>

LoadTokenizer ==
    /\ pc = "load_tokenizer"
    /\ \/ /\ Returns(<<"AutoTokenizer.from_pretrained", "init_chat_template">>,
                     "probe_dataset")
          /\ \E chat \in BOOLEAN :
                /\ tokenizer' = [loaded |-> TRUE, chat_template |-> chat]
                /\ data_args' = IF chat
                                THEN [data_args EXCEPT !.eval_with_do_generation = FALSE]
                                ELSE data_args
       \/ /\ Fails(<<"AutoTokenizer.from_pretrained", "init_chat_template">>)
          /\ tokenizer' = tokenizer
          /\ data_args' = data_args
    /\ UNCHANGED <<argvars, training_args, model_class, model,
                   dsvars, eval_zero_padding, trainer>>

-----------------------------------------------------------------------------
(* Dataset resolution, lines 187-284 *)

\* The branch of the if/elif chain taken when the names in fs exist under
\* dataset_name_or_path (lines 189-193, 229-233, 271).
\* Variant: the directory test comes first.
LayoutOf_DirFirst(fs) ==
    IF fs \cap DirNames # {} THEN "dir"
    ELSE IF fs \cap FlatFiles # {} THEN "flat"
    ELSE "named"

LayoutOf(fs) ==
    IF fs \cap FlatFiles # {} THEN "flat"
    ELSE IF fs \cap DirNames # {} THEN "dir"
    ELSE "named"

\* Where ptq_ds comes from inside a file or directory layout: quant, else
\* train, else nothing (lines 211-227, 253-269).
CalibrationSource(quantName, trainName, fs) ==
    IF quantName \in fs THEN quantName
    ELSE IF trainName \in fs THEN trainName
    ELSE "missing"

(* Lines 187-193, 229-233: the conditions of the chain. *)
\* Variant: the None test of line 187 is missing.
ProbeDataset_NoNoneCheck ==
    /\ pc = "probe_dataset"
    /\ \E fs \in SUBSET (FlatFiles \cup DirNames) :
          /\ exists' = fs
          /\ layout' = LayoutOf(fs)
          /\ Goto("load_" \o LayoutOf(fs))
    /\ UNCHANGED <<argvars, training_args, data_args, model_class, model, tokenizer,
                   train_ds, dev_ds, ptq_ds, eval_zero_padding, trainer, calls>>

ProbeDataset ==
    /\ pc = "probe_dataset"
    /\ IF data_args.dataset_name_or_path = "None"
       THEN /\ Raise("ValueError")
            /\ UNCHANGED <<exists, layout>>
       ELSE \E fs \in SUBSET (FlatFiles \cup DirNames) :
                /\ exists' = fs
                /\ layout' = LayoutOf(fs)
                /\ Goto("load_" \o LayoutOf(fs))
    /\ UNCHANGED <<argvars, training_args, data_args, model_class, model, tokenizer,
                   train_ds, dev_ds, ptq_ds, eval_zero_padding, trainer, calls>>

\* The body of a file or directory branch: train_ds and dev_ds by do_qat and
\* do_eval, then ptq_ds by what exists, else ValueError.  A load_dataset call
\* that raises ends main(); the locals are then out of reach and are left as
\* they were.
LoadLayout(trainName, devName, quantName) ==
    LET first == Opt(quant_args.do_qat, "load_dataset")
                 \o Opt(training_args.do_eval, "load_dataset")
        src == CalibrationSource(quantName, trainName, exists)
        tr == IF quant_args.do_qat THEN Ds(trainName) ELSE NoneDs
        dv == IF training_args.do_eval THEN Ds(devName) ELSE NoneDs
    IN  \/ /\ src # "missing"
           /\ Returns(first \o <<"load_dataset">>, "resume")
           /\ train_ds' = tr
           /\ dev_ds' = dv
           /\ ptq_ds' = Ds(src)
        \/ /\ src = "missing"
           /\ calls' = calls \o first
           /\ Raise("ValueError")
           /\ train_ds' = tr
           /\ dev_ds' = dv
           /\ ptq_ds' = ptq_ds
        \/ /\ Fails(first \o Opt(src # "missing", "load_dataset"))
           /\ UNCHANGED <<train_ds, dev_ds, ptq_ds>>

(* Lines 194-227 *)
LoadFlat ==
    /\ pc = "load_flat"
    /\ LoadLayout("train.json", "dev.json", "quant.json")
    /\ exists' = {}
    /\ UNCHANGED <<argvars, training_args, data_args, model_class, model, tokenizer,
                   layout, eval_zero_padding, trainer>>

(* Lines 234-269 *)
LoadDir ==
    /\ pc = "load_dir"
    /\ LoadLayout("train", "dev", "quant")
    /\ exists' = {}
    /\ UNCHANGED <<argvars, training_args, data_args, model_class, model, tokenizer,
                   layout, eval_zero_padding, trainer>>

(* Lines 272-284 *)
LoadNamed ==
    /\ pc = "load_named"
    /\ LET calib == quant_args.do_ptq \/ quant_args.do_gptq \/ quant_args.load_quant_model
           loads == Opt(quant_args.do_qat, "load_dataset")
                    \o Opt(training_args.do_eval, "load_dataset")
                    \o Opt(calib, "load_dataset")
       IN  \/ /\ Returns(loads, "resume")
              /\ train_ds' = IF quant_args.do_qat THEN Ds("named:train") ELSE NoneDs
              /\ dev_ds' = IF training_args.do_eval THEN Ds("named:dev") ELSE NoneDs
              /\ ptq_ds' = IF calib THEN Ds("named:train") ELSE NoneDs
           \/ /\ Fails(loads)
              /\ UNCHANGED <<train_ds, dev_ds, ptq_ds>>
    /\ exists' = {}
    /\ UNCHANGED <<argvars, training_args, data_args, model_class, model, tokenizer,
                   layout, eval_zero_padding, trainer>>

(* Lines 286-304: resume_from_checkpoint and lazy are read here; lazy is
   otherwise only passed on to the library. *)
ResumeSkip ==
    /\ pc = "resume"
    /\ \E resume \in BOOLEAN, lazy \in BOOLEAN :
          IF resume /\ lazy
          THEN /\ training_args' = [training_args EXCEPT !.ignore_data_skip = TRUE]
               /\ \/ /\ ~IsNone(train_ds)
                     /\ Returns(<<"TrainerState.load_from_json", "train_ds.skip">>, "prepare")
                     /\ train_ds' = [train_ds EXCEPT !.skipped = TRUE]
                  \/ /\ IsNone(train_ds)
                     /\ calls' = calls \o <<"TrainerState.load_from_json">>
                     /\ Raise("AttributeError")
                     /\ train_ds' = train_ds
                  \/ /\ Fails(<<"TrainerState.load_from_json">>
                              \o Opt(~IsNone(train_ds), "train_ds.skip"))
                     /\ train_ds' = train_ds
          ELSE /\ Goto("prepare")
               /\ UNCHANGED <<training_args, train_ds, calls>>
    /\ UNCHANGED <<argvars, data_args, model_class, model, tokenizer,
                   exists, layout, dev_ds, ptq_ds, eval_zero_padding, trainer>>

\* Lines 327-332
EvalZeroPadding ==
    data_args.zero_padding /\ ~data_args.eval_with_do_generation

\* One dataset after .map (lines 313-344) and, when pack holds, after the
\* zero-padding wrapper (lines 351-381).
Prepared(ds, pack) ==
    IF IsNone(ds) THEN ds ELSE [ds EXCEPT !.mapped = TRUE, !.packed = pack]

PrepareCalls(ds, pack) ==
    IF IsNone(ds) THEN <<>> ELSE <<"Dataset.map">> \o Opt(pack, "intoken_dataset")

\* Lines 306-311
TransFuncCalls ==
    IF training_args.pipeline_parallel_degree > 1 THEN <<>> ELSE <<"get_convert_example">>

(* Lines 306-381 *)
PrepareDatasets ==
    /\ pc = "prepare"
    /\ LET zp == data_args.zero_padding
           ezp == EvalZeroPadding
           cs == TransFuncCalls
                 \o PrepareCalls(train_ds, zp) \o PrepareCalls(ptq_ds, zp)
                 \o PrepareCalls(dev_ds, zp /\ ezp)
       IN  \/ /\ calls' = calls \o cs
              /\ Goto("build_trainer")
              /\ eval_zero_padding' = ezp
              /\ train_ds' = Prepared(train_ds, zp)
              /\ ptq_ds' = Prepared(ptq_ds, zp)
              /\ dev_ds' = Prepared(dev_ds, zp /\ ezp)
           \/ /\ Fails(cs)
              /\ UNCHANGED <<eval_zero_padding, train_ds, ptq_ds, dev_ds>>
    /\ UNCHANGED <<argvars, training_args, data_args, model_class, model, tokenizer,
                   exists, layout, trainer>>

-----------------------------------------------------------------------------
(* Trainer construction, lines 415-458 *)

\* Lines 415-427.  other stands for sequence_parallel or autotuner_benchmark
\* or pad_to_max_length.
CollatorPadding(other) ==
    IF training_args.pipeline_parallel_degree > 1 \/ other \/ data_args.zero_padding
    THEN "max_length" ELSE "True"

\* Lines 429-434
Metrics ==
    IF training_args.pipeline_parallel_degree > 1 THEN "None"
    ELSE IF data_args.eval_with_do_generation THEN "compute_metrics_do_generation"
    ELSE "compute_metrics"

TrainerCalls ==
    <<"DataCollatorForSeq2Seq", "SFTTrainer", "trainer.set_optimizer_grouped_parameters">>

BuildTrainer ==
    /\ pc = "build_trainer"
    /\ \/ /\ Returns(TrainerCalls, "qat")
          /\ \E other \in BOOLEAN :
                trainer' = [built |-> TRUE,
                            train_dataset |-> train_ds,
                            eval_dataset |-> dev_ds,
                            compute_metrics |-> Metrics,
                            padding |-> CollatorPadding(other),
                            return_attention_mask |-> ~model_args.flash_mask,
                            do_generation |-> data_args.eval_with_do_generation]
       \/ /\ Fails(TrainerCalls)
          /\ trainer' = trainer
    /\ UNCHANGED <<argvars, training_args, data_args, model_class, model, tokenizer,
                   dsvars, eval_zero_padding>>

-----------------------------------------------------------------------------
(* The strategy branches, lines 460-575 *)

IsLoRA == model.class = "LoRAModel"

\* Lines 486-491 and 552-557: quant_type, smooth, shift and
\* shift_smooth_all_linears are assigned from quant_args.
Configured ==
    [model EXCEPT !.quantization_config =
                      [modified |-> TRUE, shift |-> quant_args.shift,
                       smooth |-> quant_args.smooth]]

\* Lines 464-469
QatCalls ==
    <<"create_qat_model", "trainer.train", "trainer.save_model",
      "trainer.log_metrics", "trainer.save_metrics", "trainer.save_state">>

\* Lines 485-506
\* Variant: get_ptq_model_config is called on shift only.
PtqCalls_ConfigOnlyOnShift(shift, smooth, auto_clip) ==
    <<"trainer.model.eval", "trainer.get_ptq_dataloader">>
    \o Opt(shift, "get_ptq_model_config")
    \o Opt(shift, "apply_shift")
    \o Opt(smooth, "apply_smooth")
    \o Opt(auto_clip, "apply_autoclip")
    \o <<"apply_ptq", "trainer.save_model">>

PtqCalls(shift, smooth, auto_clip) ==
    <<"trainer.model.eval", "trainer.get_ptq_dataloader">>
    \o Opt(shift \/ smooth, "get_ptq_model_config")
    \o Opt(shift, "apply_shift")
    \o Opt(smooth, "apply_smooth")
    \o Opt(auto_clip, "apply_autoclip")
    \o <<"apply_ptq", "trainer.save_model">>

\* Lines 515-517
\* Variant: the GPTQ branch does not save.
GptqCalls_NoSave ==
    <<"trainer.get_ptq_dataloader", "apply_gptq">>

GptqCalls ==
    <<"trainer.get_ptq_dataloader", "apply_gptq", "trainer.save_model">>

\* Lines 521-535
PredictCalls ==
    <<"load_dataset", "Dataset.map">> \o Opt(eval_zero_padding, "intoken_dataset")
    \o <<"trainer.predict", "trainer.log_metrics">>

\* Lines 551-568
LoadQuantCalls(shift, smooth) ==
    <<"trainer.model.eval", "trainer.get_ptq_dataloader">>
    \o Opt(shift \/ smooth, "get_ptq_model_config")
    \o Opt(shift, "apply_shift")
    \o Opt(smooth, "apply_smooth")
    \o <<"load_quant_model">>

\* Lines 573-575
EvaluateCalls == <<"trainer.evaluate", "trainer.log_metrics">>

\* A branch that first calls trainer.model.eval(), then assigns the
\* quantization_config fields, then makes the rest of the calls cs.
QuantBranch(cs, next) ==
    \/ /\ Returns(cs, next)
       /\ model' = Configured
    \/ \E k \in 1..Len(cs) :
          /\ calls' = calls \o SubSeq(cs, 1, k)
          /\ Raise("LibraryError")
          /\ model' = IF k = 1 THEN model ELSE Configured

(* Lines 461-469 *)
\* Variant: a failed trainer.train is tried once more.
Qat_RetryTrain ==
    /\ pc = "qat"
    /\ IF quant_args.do_qat
       THEN \/ Returns(QatCalls, "ptq")
            \/ Fails(QatCalls)
            \/ /\ calls' = calls \o <<"create_qat_model", "trainer.train", "trainer.train">>
               /\ Raise("LibraryError")
       ELSE Goto("ptq") /\ calls' = calls
    /\ UNCHANGED <<argvars, training_args, data_args, model_class, model, tokenizer,
                   dsvars, eval_zero_padding, trainer>>

Qat ==
    /\ pc = "qat"
    /\ IF quant_args.do_qat
       THEN \/ Returns(QatCalls, "ptq")
            \/ Fails(QatCalls)
       ELSE Goto("ptq") /\ calls' = calls
    /\ UNCHANGED <<argvars, training_args, data_args, model_class, model, tokenizer,
                   dsvars, eval_zero_padding, trainer>>

(* Lines 472-506 *)
\* Variant: the LoRAModel test of line 473 is missing.
Ptq_NoLoRACheck ==
    /\ pc = "ptq"
    /\ IF quant_args.do_ptq
       THEN QuantBranch(PtqCalls(quant_args.shift, quant_args.smooth, quant_args.auto_clip),
                        "gptq")
       ELSE Goto("gptq") /\ UNCHANGED <<calls, model>>
    /\ UNCHANGED <<argvars, training_args, data_args, model_class, tokenizer,
                   dsvars, eval_zero_padding, trainer>>

Ptq ==
    /\ pc = "ptq"
    /\ IF quant_args.do_ptq
       THEN IF IsLoRA
            THEN Raise("NotImplementedError") /\ UNCHANGED <<calls, model>>
            ELSE QuantBranch(PtqCalls(quant_args.shift, quant_args.smooth,
                                     quant_args.auto_clip), "gptq")
       ELSE Goto("gptq") /\ UNCHANGED <<calls, model>>
    /\ UNCHANGED <<argvars, training_args, data_args, model_class, tokenizer,
                   dsvars, eval_zero_padding, trainer>>

(* Lines 508-517 *)
Gptq ==
    /\ pc = "gptq"
    /\ IF quant_args.do_gptq
       THEN IF IsLoRA
            THEN Raise("NotImplementedError") /\ calls' = calls
            ELSE \/ Returns(GptqCalls, "predict")
                 \/ Fails(GptqCalls)
       ELSE Goto("predict") /\ calls' = calls
    /\ UNCHANGED <<argvars, training_args, data_args, model_class, model, tokenizer,
                   dsvars, eval_zero_padding, trainer>>

(* Lines 520-535: do_predict is read here only. *)
Predict ==
    /\ pc = "predict"
    /\ \E do_predict \in BOOLEAN :
          IF do_predict
          THEN \/ Returns(PredictCalls, "load_quant")
               \/ Fails(PredictCalls)
          ELSE Goto("load_quant") /\ calls' = calls
    /\ UNCHANGED <<argvars, training_args, data_args, model_class, model, tokenizer,
                   dsvars, eval_zero_padding, trainer>>

(* Lines 537-568 *)
LoadQuant ==
    /\ pc = "load_quant"
    /\ IF quant_args.load_quant_model /\ ~quant_args.do_ptq
       THEN IF IsLoRA
            THEN Raise("NotImplementedError") /\ UNCHANGED <<calls, model>>
            ELSE QuantBranch(LoadQuantCalls(quant_args.shift, quant_args.smooth), "evaluate")
       ELSE Goto("evaluate") /\ UNCHANGED <<calls, model>>
    /\ UNCHANGED <<argvars, training_args, data_args, model_class, tokenizer,
                   dsvars, eval_zero_padding, trainer>>

(* Lines 571-575, and the return of main() *)
\* Variant: the do_eval test of line 571 is missing.
Evaluate_Unconditional ==
    /\ pc = "evaluate"
    /\ \/ Returns(EvaluateCalls, "done")
       \/ Fails(EvaluateCalls)
    /\ UNCHANGED <<argvars, training_args, data_args, model_class, model, tokenizer,
                   dsvars, eval_zero_padding, trainer>>

Evaluate ==
    /\ pc = "evaluate"
    /\ IF training_args.do_eval
       THEN \/ Returns(EvaluateCalls, "done")
            \/ Fails(EvaluateCalls)
       ELSE Goto("done") /\ calls' = calls
    /\ UNCHANGED <<argvars, training_args, data_args, model_class, model, tokenizer,
                   dsvars, eval_zero_padding, trainer>>

-----------------------------------------------------------------------------

Next ==
    \/ CheckStrategy
    \/ SetDevice
    \/ XpuAccumulateOpt
    \/ XpuExcept
    \/ SelectDtype
    \/ LoadConfig
    \/ SelectModelClass
    \/ LoadModel
    \/ CheckFlashMask
    \/ RegisterHooks
    \/ LoadTokenizer
    \/ ProbeDataset
    \/ LoadFlat
    \/ LoadDir
    \/ LoadNamed
    \/ ResumeSkip
    \/ PrepareDatasets
    \/ BuildTrainer
    \/ Qat
    \/ Ptq
    \/ Gptq
    \/ Predict
    \/ LoadQuant
    \/ Evaluate

Spec == Init /\ [][Next]_vars

-----------------------------------------------------------------------------
(* Vocabulary of the properties *)

Called(c) == \E i \in DOMAIN calls : calls[i] = c

Count(c) == Cardinality({i \in DOMAIN calls : calls[i] = c})

AtMostOnce(c) ==
    \A i \in DOMAIN calls :
        calls[i] = c => \A j \in (i + 1)..Len(calls) : calls[j] # c

\* Every call of a precedes every call of b: no a at or after a b.
AllBefore(a, b) ==
    \A j \in DOMAIN calls :
        calls[j] = b => \A i \in j..Len(calls) : calls[i] # a

StrategyCount ==
    BoolCount(quant_args.do_ptq) + BoolCount(quant_args.do_qat)
    + BoolCount(quant_args.do_gptq)

\* Positions of main() after the dataset if/elif chain has been entered.
AfterProbe ==
    {"load_flat", "load_dir", "load_named", "resume", "prepare", "build_trainer",
     "qat", "ptq", "gptq", "predict", "load_quant", "evaluate", "done"}

\* Positions of main() after the GPTQ branch.
AfterGptq == {"predict", "load_quant", "evaluate", "done"}

NothingLoadedOrBuilt ==
    /\ calls = <<>>
    /\ model = UnboundModel
    /\ tokenizer = UnboundTokenizer
    /\ train_ds = UnboundDs /\ dev_ds = UnboundDs /\ ptq_ds = UnboundDs
    /\ trainer = UnboundTrainer

QuantSteps ==
    {"trainer.get_ptq_dataloader", "get_ptq_model_config", "apply_shift", "apply_smooth",
     "apply_autoclip", "apply_ptq", "apply_gptq", "load_quant_model", "create_qat_model"}

RunSteps == {"trainer.train", "trainer.predict", "trainer.evaluate"}

WriteSteps == {"trainer.save_model", "trainer.save_metrics", "trainer.save_state"}

-----------------------------------------------------------------------------
(* C1: whenever more than one of do_ptq, do_qat, do_gptq is set, main() gets no
   further than the check of line 80: it raises ValueError there, with no
   device set, nothing loaded, no trainer built and no call made.  When at
   most one is set, that check never raises. *)
C1_StrategyConflictRaisesFirst ==
    /\ StrategyCount > 1 =>
          \/ pc = "check_strategy" /\ exc = NoExc /\ NothingLoadedOrBuilt
          \/ /\ pc = "raised"
             /\ exc = [type |-> "ValueError", at |-> "check_strategy"]
             /\ NothingLoadedOrBuilt
    /\ StrategyCount <= 1 => exc.at # "check_strategy"

C1_Witness ==
    /\ pc = "raised"
    /\ exc = [type |-> "ValueError", at |-> "check_strategy"]
    /\ quant_args.do_ptq /\ quant_args.do_gptq /\ ~quant_args.do_qat

(* C2: in every run at most one of the strategy branches has executed (QAT:
   create_qat_model or trainer.train; PTQ: apply_ptq; GPTQ: apply_gptq), and a
   run that completes has called trainer.save_model exactly once if one of
   do_qat, do_ptq, do_gptq is set and never if none is. *)
C2_OneStrategyOneSave ==
    /\ BoolCount(Called("create_qat_model") \/ Called("trainer.train"))
         + BoolCount(Called("apply_ptq")) + BoolCount(Called("apply_gptq")) <= 1
    /\ pc = "done" =>
          Count("trainer.save_model") = (IF StrategyCount >= 1 THEN 1 ELSE 0)

C2_Witness ==
    /\ pc = "done"
    /\ quant_args.do_gptq /\ quant_args.load_quant_model
    /\ Called("apply_gptq") /\ Called("load_quant_model")
    /\ Count("trainer.save_model") = 1

(* C3: with a LoRAModel loaded and do_ptq or do_gptq set, the run never gets
   past the PTQ/GPTQ branches and never completes; the exception raised in
   those branches is NotImplementedError; no calibration dataloader is built,
   no shift/smooth/auto-clip/PTQ/GPTQ step is applied, quantization_config is
   as it was built, and save_model is never called. *)
C3_LoRAPtqRejected ==
    (IsLoRA /\ (quant_args.do_ptq \/ quant_args.do_gptq)) =>
        /\ pc \notin AfterGptq
        /\ (pc = "raised" /\ exc.at \in {"ptq", "gptq"}) => exc.type = "NotImplementedError"
        /\ quant_args.do_ptq => pc # "gptq"
        /\ \A c \in {"trainer.get_ptq_dataloader", "apply_shift", "apply_smooth",
                     "apply_autoclip", "apply_ptq", "apply_gptq", "trainer.save_model"} :
              ~Called(c)
        /\ model.quantization_config = FreshQuantizationConfig

C3_Witness ==
    /\ pc = "raised"
    /\ exc = [type |-> "NotImplementedError", at |-> "ptq"]
    /\ IsLoRA /\ quant_args.do_ptq
    /\ trainer.built

(* C4: with a LoRAModel and a PTQ-family option selected (do_ptq, do_gptq, or
   load_quant_model without do_ptq), the NotImplementedError of the strategy
   branches is raised before any trainer.train, save_model, save_metrics,
   save_state or trainer.predict call of the run. *)
C4_LoRARaisesBeforeAnyRun ==
    ( /\ IsLoRA
      /\ \/ quant_args.do_ptq
         \/ quant_args.do_gptq
         \/ (quant_args.load_quant_model /\ ~quant_args.do_ptq)
      /\ pc = "raised"
      /\ exc.type = "NotImplementedError"
      /\ exc.at \in {"ptq", "gptq", "load_quant"} ) =>
        \A c \in {"trainer.train", "trainer.save_model", "trainer.save_metrics",
                  "trainer.save_state", "trainer.predict"} : ~Called(c)

(* C5: when dataset_name_or_path is None, main() never enters the dataset
   chain: if it gets to line 187 it raises ValueError there; no dataset is
   loaded, no trainer is built, no quantization, training, prediction or
   evaluation step runs, and nothing is saved. *)
C5_MissingDatasetPathRaises ==
    data_args.dataset_name_or_path = "None" =>
        /\ pc \notin AfterProbe
        /\ (pc = "raised" /\ exc.at = "probe_dataset") => exc.type = "ValueError"
        /\ ~Called("load_dataset")
        /\ train_ds = UnboundDs /\ dev_ds = UnboundDs /\ ptq_ds = UnboundDs
        /\ ~trainer.built /\ ~Called("SFTTrainer")
        /\ \A c \in QuantSteps \cup RunSteps \cup WriteSteps : ~Called(c)

C5_Witness ==
    /\ pc = "raised"
    /\ exc = [type |-> "ValueError", at |-> "probe_dataset"]
    /\ data_args.dataset_name_or_path = "None"
    /\ tokenizer.loaded

(* C6: the dataset layout is resolved by fixed precedence -- flat files if
   any of train.json, dev.json, quant.json exists, else directories if any
   of train, dev, quant exists, else a named dataset -- and inside a file or
   directory layout the calibration set comes from quant(.json) if it
   exists, else from train(.json) if it exists, else main() raises
   ValueError; whatever the flags are. *)
C6_LayoutPrecedence ==
    pc \in {"load_flat", "load_dir", "load_named"} =>
        /\ pc = "load_flat" <=> (exists \cap FlatFiles # {})
        /\ pc = "load_dir" <=> (exists \cap FlatFiles = {} /\ exists \cap DirNames # {})
        /\ pc = "load_named" <=> (exists \cap (FlatFiles \cup DirNames) = {})

C6_CalibrationStep(at, quantName, trainName) ==
    pc = at =>
        /\ pc' = "resume" =>
              \/ quantName \in exists /\ ptq_ds'.src = quantName
              \/ quantName \notin exists /\ trainName \in exists /\ ptq_ds'.src = trainName
        /\ (quantName \notin exists /\ trainName \notin exists) =>
              /\ pc' = "raised"
              /\ \/ exc'.type = "ValueError"
                 \/ exc'.type = "LibraryError" /\ calls' # calls
        /\ exc'.type = "ValueError" =>
              (quantName \notin exists /\ trainName \notin exists)

C6_DatasetResolution ==
    /\ [](C6_LayoutPrecedence)
    /\ [][ /\ C6_CalibrationStep("load_flat", "quant.json", "train.json")
           /\ C6_CalibrationStep("load_dir", "quant", "train") ]_vars

C6_Witness ==
    /\ pc = "raised"
    /\ exc = [type |-> "ValueError", at |-> "load_flat"]
    /\ layout = "flat"
    /\ StrategyCount = 0 /\ ~quant_args.load_quant_model
    /\ training_args.do_eval /\ dev_ds.src = "dev.json"
    /\ ptq_ds = UnboundDs

(* C7: each listed step is invoked at most once in a run, and an exception
   raised by any step ends the run: once an exception has been raised no
   further step of main() is taken. *)
C7_Steps ==
    {"load_model", "AutoTokenizer.from_pretrained", "SFTTrainer", "trainer.train",
     "apply_shift", "apply_smooth", "apply_autoclip", "apply_ptq", "apply_gptq",
     "load_quant_model", "trainer.predict", "trainer.evaluate"}

C7_AtMostOnce ==
    \A i \in DOMAIN calls :
        calls[i] \in C7_Steps => \A j \in (i + 1)..Len(calls) : calls[j] # calls[i]

C7_NoRecovery ==
    /\ [](C7_AtMostOnce)
    /\ [][exc # NoExc => UNCHANGED vars]_vars

(* C7, amended: each listed step is invoked at most once in a run, and an
   exception raised by any step ends the run with no later step taken, except
   an ImportError out of the optional xpu accumulate-steps block (lines
   93-97), which the except clause of line 98 swallows: the run then goes on
   at the dtype selection with no exception pending. *)
C7_NoRecoveryButXpuImport ==
    /\ [](C7_AtMostOnce)
    /\ [](exc # NoExc =>
            \/ pc = "raised"
            \/ pc = "xpu_except" /\ exc = [type |-> "ImportError", at |-> "xpu_opt"])
    /\ [][exc # NoExc =>
            /\ pc = "xpu_except"
            /\ pc' = "dtype" /\ exc' = NoExc /\ calls' = calls]_vars

C7_Witness ==
    /\ pc = "raised"
    /\ exc = [type |-> "LibraryError", at |-> "qat"]
    /\ Len(calls) > 0 /\ calls[Len(calls)] = "trainer.train"
    /\ training_args.do_eval /\ quant_args.load_quant_model
    /\ ~Called("trainer.evaluate") /\ ~Called("load_quant_model")

(* C8: once the PTQ branch has run (do_ptq set, model not LoRA), its calls
   have occurred in the order get_ptq_dataloader, get_ptq_model_config,
   apply_shift, apply_smooth, apply_autoclip, apply_ptq, save_model, each at
   most once; apply_shift iff shift, apply_smooth iff smooth, apply_autoclip
   iff auto_clip, get_ptq_model_config iff shift or smooth (so it precedes
   every use of its result); apply_ptq directly followed by save_model ends
   the branch whatever the optional flags are. *)
C8_Order ==
    <<"trainer.get_ptq_dataloader", "get_ptq_model_config", "apply_shift", "apply_smooth",
      "apply_autoclip", "apply_ptq", "trainer.save_model">>

C8_PtqSequence ==
    (quant_args.do_ptq /\ pc \in {"gptq"} \cup AfterGptq) =>
        /\ ~IsLoRA
        /\ \A m \in DOMAIN C8_Order : \A n \in DOMAIN C8_Order :
              m < n => AllBefore(C8_Order[m], C8_Order[n])
        /\ \A m \in DOMAIN C8_Order : AtMostOnce(C8_Order[m])
        /\ Called("trainer.get_ptq_dataloader")
        /\ Called("get_ptq_model_config") <=> (quant_args.shift \/ quant_args.smooth)
        /\ Called("apply_shift") <=> quant_args.shift
        /\ Called("apply_smooth") <=> quant_args.smooth
        /\ Called("apply_autoclip") <=> quant_args.auto_clip
        /\ \E i \in DOMAIN calls :
              /\ i < Len(calls)
              /\ calls[i] = "apply_ptq"
              /\ calls[i + 1] = "trainer.save_model"
              /\ pc = "gptq" => i + 1 = Len(calls)

C8_Witness ==
    /\ pc = "done"
    /\ quant_args.do_ptq /\ ~quant_args.shift /\ quant_args.smooth /\ quant_args.auto_clip
    /\ Called("apply_smooth") /\ Called("apply_autoclip") /\ Called("apply_ptq")

(* C9: a run that completes has called trainer.evaluate exactly once if
   do_eval is set and never otherwise, and evaluation comes last: every
   trainer.train, apply_ptq, apply_gptq, load_quant_model, save_model and
   trainer.predict call precedes it, and only the logging of its result
   follows it. *)
C9_EvaluateLast ==
    /\ pc = "done" =>
          Count("trainer.evaluate") = (IF training_args.do_eval THEN 1 ELSE 0)
    /\ ~training_args.do_eval => ~Called("trainer.evaluate")
    /\ \A i \in DOMAIN calls :
          calls[i] = "trainer.evaluate" =>
              /\ \A j \in i..Len(calls) :
                    calls[j] \notin {"trainer.train", "apply_ptq", "apply_gptq",
                                     "load_quant_model", "trainer.save_model",
                                     "trainer.predict"}
              /\ i >= Len(calls) - 1
              /\ i < Len(calls) => calls[i + 1] = "trainer.log_metrics"

C9_Witness ==
    /\ pc = "done"
    /\ training_args.do_eval
    /\ Called("apply_gptq") /\ Called("trainer.predict") /\ Called("load_quant_model")
    /\ calls[Len(calls) - 1] = "trainer.evaluate"

(* C10: once the trainer is built with flash_mask set, zero_padding and
   use_flash_attention are both true, the model is of one of the four
   supported classes, the collator pads to max_length and
   return_attention_mask is false; a model of another class with flash_mask
   set gets NotImplementedError at line 169, before the tokenizer or any
   dataset is loaded; without flash_mask no step changes zero_padding or the
   loaded model's use_flash_attention. *)
C10_FlashMaskState ==
    /\ (model_args.flash_mask /\ trainer.built) =>
          /\ data_args.zero_padding
          /\ model.use_flash_attention
          /\ model.class \in {"LlamaForCausalLM", "LlamaForCausalLMPipe",
                              "Qwen2ForCausalLM", "Qwen2ForCausalLMPipe"}
          /\ trainer.padding = "max_length"
          /\ ~trainer.return_attention_mask
    /\ (model_args.flash_mask /\ model.class \notin
            {"unbound", "LlamaForCausalLM", "LlamaForCausalLMPipe",
             "Qwen2ForCausalLM", "Qwen2ForCausalLMPipe"}) =>
          /\ \/ pc = "flash_mask"
             \/ pc = "raised" /\ exc = [type |-> "NotImplementedError", at |-> "flash_mask"]
          /\ ~tokenizer.loaded
          /\ ~Called("AutoTokenizer.from_pretrained")
          /\ ~Called("load_dataset")

C10_FlashMask ==
    /\ [](C10_FlashMaskState)
    /\ [][~model_args.flash_mask =>
            /\ data_args'.zero_padding = data_args.zero_padding
            /\ model.class # "unbound" =>
                  model'.use_flash_attention = model.use_flash_attention]_vars

C10_Witness ==
    /\ pc = "done"
    /\ model_args.flash_mask /\ trainer.built
    /\ model.class = "Qwen2ForCausalLMPipe"
    /\ trainer.padding = "max_length" /\ ~trainer.return_attention_mask

\* Positions of main() before the model is built.
BeforeModel ==
    {"check_strategy", "set_device", "xpu_opt", "xpu_except", "dtype", "load_config",
     "model_class"}

\* Positions of main() after the datasets have been mapped and wrapped.
AfterPrepare ==
    {"build_trainer", "qat", "ptq", "gptq", "predict", "load_quant", "evaluate", "done"}

(* C11: generation-based evaluation is never combined with a chat template,
   zero padding of the eval set, or pipeline parallelism.
   (a) From the moment the tokenizer is loaded with a chat template,
       eval_with_do_generation is false, so every later reader of it
       (dataset preparation, trainer construction, the test-set block) sees
       false: the trainer gets do_generation = False and not the generation
       metric.
   (b) With eval_with_do_generation true, eval_zero_padding is false, the dev
       set is not wrapped and no zero-padding wrapper is built once the
       trainer exists (the test set), while with zero_padding on the train
       and calibration sets that exist are wrapped.
   (c) No trainer is built with pipeline_parallel_degree > 1, do_eval and
       do_generation all true: that combination raises ValueError at line
       149 before the model is built, and under pipeline parallelism the
       metrics function is None. *)
C11_ChatTemplate ==
    /\ tokenizer.chat_template => ~data_args.eval_with_do_generation
    /\ (tokenizer.chat_template /\ trainer.built) =>
          /\ ~trainer.do_generation
          /\ trainer.compute_metrics # "compute_metrics_do_generation"

C11_EvalNotPacked ==
    /\ (data_args.eval_with_do_generation /\ tokenizer.loaded) =>
          /\ ~eval_zero_padding
          /\ ~dev_ds.packed
          /\ ~trainer.eval_dataset.packed
          /\ AllBefore("intoken_dataset", "SFTTrainer")
    /\ (data_args.zero_padding /\ pc \in AfterPrepare) =>
          /\ ~IsNone(train_ds) => train_ds.packed
          /\ ~IsNone(ptq_ds) => ptq_ds.packed

C11_Pipeline ==
    /\ trainer.built =>
          /\ ~( /\ training_args.pipeline_parallel_degree > 1
                /\ training_args.do_eval
                /\ trainer.do_generation )
          /\ trainer.do_generation = data_args.eval_with_do_generation
          /\ training_args.pipeline_parallel_degree > 1 => trainer.compute_metrics = "None"
          /\ trainer.compute_metrics = "compute_metrics_do_generation" =>
                /\ trainer.do_generation
                /\ training_args.pipeline_parallel_degree <= 1
    /\ ( /\ training_args.pipeline_parallel_degree > 1
         /\ training_args.do_eval
         /\ data_args.eval_with_do_generation ) =>
          /\ model = UnboundModel /\ ~Called("load_model")
          /\ \/ pc \in BeforeModel
             \/ pc = "raised"
          /\ (pc = "raised" /\ exc.at = "model_class") => exc.type = "ValueError"

C11_GenerationEvalExclusive ==
    /\ C11_ChatTemplate
    /\ C11_EvalNotPacked
    /\ C11_Pipeline

\* zero_padding on and generation-based evaluation: train and calibration
\* sets wrapped, dev set and test set not.
C11_Witness ==
    /\ pc = "done"
    /\ data_args.zero_padding /\ data_args.eval_with_do_generation
    /\ training_args.do_eval /\ quant_args.do_qat
    /\ train_ds.packed /\ ptq_ds.packed /\ ~IsNone(dev_ds) /\ ~dev_ds.packed
    /\ Called("trainer.predict")
    /\ trainer.do_generation
    /\ trainer.compute_metrics = "compute_metrics_do_generation"

(* C12: whenever the resume branch has executed (resume_from_checkpoint set
   and lazy true; it is the only place that sets ignore_data_skip), the
   train_ds on which skip(consumed_samples) is called is a dataset, not
   None, whatever the strategy flags and the dataset layout are. *)
C12_ResumeTrainDsExists ==
    training_args.ignore_data_skip =>
        /\ train_ds # UnboundDs
        /\ ~IsNone(train_ds)
        /\ exc.type # "AttributeError"

=============================================================================
